---- MODULE Spec2Model ----
(***************************************************************************)
(* simplegrep: pattern string -> Lexer -> Parser -> RegexNode -> NFA ->    *)
(* NFA::matches(line), driven by the line loop of main.                    *)
(*                                                                         *)
(* Characters are one-character strings.  Tokens, AST nodes and NFA states *)
(* are tuples whose first component is the variant name of the Rust enum.  *)
(***************************************************************************)
EXTENDS Naturals, Sequences, FiniteSets

(* ------------------------------------------------------------------ *)
(* Bounds of the model                                                *)
(* ------------------------------------------------------------------ *)
MaxPatLen == 3
MaxLineLen == 2
MaxLines == 2
\* calls of next_token made on a Lexer driven alone
MaxLexCalls == 5
\* matches calls running concurrently on one NFA
NThreads == 2

(* ------------------------------------------------------------------ *)
(* Characters and strings                                             *)
(* ------------------------------------------------------------------ *)
\* '\0', the character the automaton uses as its "any" sentinel
NUL == "NUL"
\* a character whose UTF-8 encoding takes two bytes (e-acute)
EAcute == "U+00E9"

\* char::len_utf8 for the characters of the model
Utf8Len(c) == IF c = EAcute THEN 2 ELSE 1

\* str::len: the length of the string in bytes
RECURSIVE ByteLen(_)
ByteLen(s) == IF s = <<>> THEN 0 ELSE Utf8Len(Head(s)) + ByteLen(Tail(s))

\* byte offset at which the i-th character (1-based) of s starts
ByteOffset(s, i) == ByteLen(SubSeq(s, 1, i - 1))

\* str::is_char_boundary
IsCharBoundary(s, pos) == \E i \in 1..(Len(s) + 1) : ByteOffset(s, i) = pos

\* self.input[pos..].chars().next().unwrap(), for pos < len on a boundary
CharAt(s, pos) == s[CHOOSE i \in 1..Len(s) : ByteOffset(s, i) = pos]

\* char::is_ascii_digit
IsAsciiDigit(c) == c \in {"0", "1", "2", "3", "4", "5", "6", "7", "8", "9"}

\* char::to_digit(10) of an ASCII digit
ToDigit(c) ==
    CASE c = "0" -> 0 [] c = "1" -> 1 [] c = "2" -> 2 [] c = "3" -> 3
      [] c = "4" -> 4 [] c = "5" -> 5 [] c = "6" -> 6 [] c = "7" -> 7
      [] c = "8" -> 8 [] c = "9" -> 9

\* all sequences over S of length at most n
SeqsUpTo(S, n) == UNION {[1..k -> S] : k \in 0..n}

Range(f) == {f[i] : i \in DOMAIN f}

(* ------------------------------------------------------------------ *)
(* tokens.rs: Token and Lexer                                         *)
(* ------------------------------------------------------------------ *)
TokChar(c) == <<"Char", c>>
TokEscape(c) == <<"Escape", c>>
TokAlternation == <<"Alternation">>
TokStar == <<"Star">>
TokPlus == <<"Plus">>
TokQuestion == <<"Question">>
TokRange == <<"Range">>
TokOpenParen == <<"OpenParen">>
TokCloseParen == <<"CloseParen">>
TokOpenBracket == <<"OpenBracket">>
TokCloseBracket == <<"CloseBracket">>
TokAnyChar == <<"AnyChar">>
TokDigit == <<"Digit">>
TokWordChar == <<"WordChar">>
TokWhitespace == <<"Whitespace">>
TokStartLine == <<"StartLine">>
TokEndLine == <<"EndLine">>
TokStartInput == <<"StartInput">>
TokEndInput == <<"EndInput">>
TokWordBoundary == <<"WordBoundary">>
TokEOF == <<"EOF">>
\* no token: the call panicked before returning one
TokNone == <<"None">>

\* result of a Lexer call: the token, the new cursor, and whether the call
\* panicked (a str slice that does not start on a character boundary)
LexRes(tok, pos, panicked) == [tok |-> tok, pos |-> pos, panicked |-> panicked]

\* Lexer::handle_escape, entered with the cursor after the backslash
handle_escape(input, position) ==
    IF position >= ByteLen(input) THEN LexRes(TokChar("\\"), position, FALSE)
    ELSE IF ~IsCharBoundary(input, position) THEN LexRes(TokNone, position, TRUE)
    ELSE LET ch == CharAt(input, position)
             p1 == position + 1
         IN CASE ch = "d" -> LexRes(TokDigit, p1, FALSE)
              [] ch = "w" -> LexRes(TokWordChar, p1, FALSE)
              [] ch = "s" -> LexRes(TokWhitespace, p1, FALSE)
              [] ch = "A" -> LexRes(TokStartInput, p1, FALSE)
              [] ch = "z" -> LexRes(TokEndInput, p1, FALSE)
              [] ch = "b" -> LexRes(TokWordBoundary, p1, FALSE)
              [] OTHER -> LexRes(TokEscape(ch), p1, FALSE)

\* an end-of-input return that moves the cursor on
EndOfInput_Advancing(position) == LexRes(TokEOF, position + 1, FALSE)

\* if self.position >= self.input.len() { return Token::EOF; }
EndOfInput(position) == LexRes(TokEOF, position, FALSE)

\* Lexer::next_token
RECURSIVE next_token(_, _)
next_token(input, position) ==
    IF position >= ByteLen(input) THEN EndOfInput(position)
    ELSE IF ~IsCharBoundary(input, position) THEN LexRes(TokNone, position, TRUE)
    ELSE LET ch == CharAt(input, position)
             p1 == position + 1
         IN CASE ch \in {" ", "\t", "\n", "\r"} -> next_token(input, p1)
              [] ch = "(" -> LexRes(TokOpenParen, p1, FALSE)
              [] ch = ")" -> LexRes(TokCloseParen, p1, FALSE)
              [] ch = "[" -> LexRes(TokOpenBracket, p1, FALSE)
              [] ch = "]" -> LexRes(TokCloseBracket, p1, FALSE)
              [] ch = "*" -> LexRes(TokStar, p1, FALSE)
              [] ch = "+" -> LexRes(TokPlus, p1, FALSE)
              [] ch = "?" -> LexRes(TokQuestion, p1, FALSE)
              [] ch = "|" -> LexRes(TokAlternation, p1, FALSE)
              [] ch = "." -> LexRes(TokAnyChar, p1, FALSE)
              [] ch = "^" -> LexRes(TokStartLine, p1, FALSE)
              [] ch = "$" -> LexRes(TokEndLine, p1, FALSE)
              [] ch = "\\" -> handle_escape(input, p1)
              [] ch = "{" -> LexRes(TokRange, p1, FALSE)
              [] OTHER -> LexRes(TokChar(ch), p1, FALSE)

(* ------------------------------------------------------------------ *)
(* ast.rs: RegexNode and RepeatRange                                  *)
(* ------------------------------------------------------------------ *)
NodeChar(c) == <<"Char", c>>
NodeAnyChar == <<"AnyChar">>
NodeDigit == <<"Digit">>
NodeWordChar == <<"WordChar">>
NodeWhitespace == <<"Whitespace">>
NodeConcat(nodes) == <<"Concat", nodes>>
NodeAlternation(nodes) == <<"Alternation", nodes>>
NodeRepeat(node, range) == <<"Repeat", node, range>>
NodePlus(node) == <<"Plus", node>>
NodeStar(node) == <<"Star", node>>
NodeQuestion(node) == <<"Question", node>>
NodeGroup(node) == <<"Group", node>>
NodeStartLine == <<"StartLine">>
NodeEndLine == <<"EndLine">>
NodeStartInput == <<"StartInput">>
NodeEndInput == <<"EndInput">>
NodeWordBoundary == <<"WordBoundary">>
\* no AST (the parse did not return one)
NodeNone == <<"None">>

\* Option<usize>: None is <<>>, Some(n) is <<n>>
OptNone == <<>>
OptSome(n) == <<n>>

\* RepeatRange::new
RepeatRange(min, max) == [min |-> min, max |-> max]

(* ------------------------------------------------------------------ *)
(* parser.rs: Parser                                                  *)
(* ------------------------------------------------------------------ *)
\* the Parser struct: its lexer (input, position) and its current token
ParserState(input, position, tok) ==
    [input |-> input, position |-> position, current_token |-> tok]

\* Result<T, String> together with the parser after the call; kind "Panic"
\* is a panic raised inside the lexer
POk(val, p) == [kind |-> "Ok", val |-> val, err |-> <<>>, p |-> p]
PErr(err, p) == [kind |-> "Err", val |-> NodeNone, err |-> err, p |-> p]
PPanic(p) == [kind |-> "Panic", val |-> NodeNone, err |-> <<>>, p |-> p]

\* format!("Expected {:?}, got {:?}", expected, current_token)
ErrExpected(expected, actual) == <<"Expected", expected, actual>>
\* format!("Unexpected token: {:?}", current_token)
ErrUnexpected(actual) == <<"Unexpected", actual>>

\* the parser once the lexer call lx that refills current_token has returned
Advance(p, lx) ==
    IF lx.panicked THEN PPanic(ParserState(p.input, lx.pos, p.current_token))
    ELSE POk(NodeNone, ParserState(p.input, lx.pos, lx.tok))

\* Parser::new
ParserNew(input) == Advance(ParserState(input, 0, TokNone), next_token(input, 0))

\* consume_token without its comparison: it advances on any token
consume_token_Unchecked(p, expected) == Advance(p, next_token(p.input, p.position))

\* Parser::consume_token
consume_token(p, expected) ==
    IF p.current_token = expected
    THEN Advance(p, next_token(p.input, p.position))
    ELSE PErr(ErrExpected(expected, p.current_token), p)

\* Parser::escape_to_node
escape_to_node(ch) ==
    CASE ch = "d" -> NodeDigit
      [] ch = "w" -> NodeWordChar
      [] ch = "s" -> NodeWhitespace
      [] ch = "A" -> NodeStartInput
      [] ch = "z" -> NodeEndInput
      [] ch = "b" -> NodeWordBoundary
      [] OTHER -> NodeChar(ch)

\* c?; Ok(val) for the result c of a consume_token call
OkThen(c, val) == IF c.kind = "Ok" THEN POk(val, c.p) ELSE c

\* self.consume_token(tok)?; Ok(val)
ConsumeThen(p, tok, val) == OkThen(consume_token(p, tok), val)

\* if let Token::Char(ch) = tok { if ch.is_ascii_digit() {..} }
IsDigitToken(tok) == tok[1] = "Char" /\ IsAsciiDigit(tok[2])

\* parse_range, the end: self.consume_token(Token::CloseBracket)?; Ok(RepeatRange::new(min, max))
RangeClose(p, min, max) == ConsumeThen(p, TokCloseBracket, RepeatRange(min, max))

\* parse_range after the consume_token call c of the max digit
RangeAfterMax(min, max, c) == IF c.kind # "Ok" THEN c ELSE RangeClose(c.p, min, max)

\* parse_range after the consume_token call c of the comma
RangeAfterComma(min, c) ==
    IF c.kind # "Ok" THEN c
    ELSE IF IsDigitToken(c.p.current_token)
    THEN RangeAfterMax(min, OptSome(ToDigit(c.p.current_token[2])),
                       consume_token(c.p, c.p.current_token))
    ELSE RangeClose(c.p, min, OptNone)

\* parse_range after the consume_token call c of the min digit
RangeAfterMin(min, c) ==
    IF c.kind # "Ok" THEN c
    ELSE IF c.p.current_token = TokChar(",")
    THEN RangeAfterComma(min, consume_token(c.p, TokChar(",")))
    ELSE RangeClose(c.p, min, OptNone)

\* Parser::parse_range
parse_range(p) ==
    IF IsDigitToken(p.current_token)
    THEN RangeAfterMin(ToDigit(p.current_token[2]), consume_token(p, p.current_token))
    ELSE RangeClose(p, 0, OptNone)

\* the tokens parse_primary turns into a node by themselves, and the node
IsSimplePrimary(tok) ==
    \/ tok[1] \in {"Char", "Escape"}
    \/ tok \in {TokAnyChar, TokDigit, TokWordChar, TokWhitespace, TokStartLine,
                TokEndLine, TokStartInput, TokEndInput, TokWordBoundary}

PrimaryNode(tok) ==
    CASE tok[1] = "Char" -> NodeChar(tok[2])
      [] tok[1] = "Escape" -> escape_to_node(tok[2])
      [] tok = TokAnyChar -> NodeAnyChar
      [] tok = TokDigit -> NodeDigit
      [] tok = TokWordChar -> NodeWordChar
      [] tok = TokWhitespace -> NodeWhitespace
      [] tok = TokStartLine -> NodeStartLine
      [] tok = TokEndLine -> NodeEndLine
      [] tok = TokStartInput -> NodeStartInput
      [] tok = TokEndInput -> NodeEndInput
      [] tok = TokWordBoundary -> NodeWordBoundary

\* the quantifier arms of parse_atom that wrap the node after one token
QuantifiedNode(tok, node) ==
    CASE tok = TokStar -> NodeStar(node)
      [] tok = TokPlus -> NodePlus(node)
      [] tok = TokQuestion -> NodeQuestion(node)

RECURSIVE parse_alternation(_)
RECURSIVE AlternationLoop(_, _)
RECURSIVE parse_concat(_)
RECURSIVE ConcatLoop(_, _)
RECURSIVE parse_atom(_)
RECURSIVE parse_primary(_)

\* Parser::parse
parse(p) == parse_alternation(p)

\* the OpenParen arm after its inner self.parse() returned r
GroupAfterParse(r) ==
    IF r.kind # "Ok" THEN r ELSE ConsumeThen(r.p, TokCloseParen, NodeGroup(r.val))

\* the OpenParen arm after its consume_token(OpenParen) returned c
GroupAfterOpen(c) == IF c.kind # "Ok" THEN c ELSE GroupAfterParse(parse(c.p))

\* Parser::parse_primary
parse_primary(p) ==
    IF p.current_token = TokOpenParen
    THEN GroupAfterOpen(consume_token(p, TokOpenParen))
    ELSE IF IsSimplePrimary(p.current_token)
    THEN ConsumeThen(p, p.current_token, PrimaryNode(p.current_token))
    ELSE PErr(ErrUnexpected(p.current_token), p)

\* the Range arm of parse_atom after parse_range returned g
RepeatAfterRange(node, g) ==
    IF g.kind # "Ok" THEN g ELSE POk(NodeRepeat(node, g.val), g.p)

\* the Range arm of parse_atom after consume_token(Range) returned c
RepeatAfterBrace(node, c) ==
    IF c.kind # "Ok" THEN c ELSE RepeatAfterRange(node, parse_range(c.p))

\* parse_atom after parse_primary returned r: the quantifier match
AtomQuantifier(r) ==
    IF r.kind # "Ok" THEN r
    ELSE IF r.p.current_token \in {TokStar, TokPlus, TokQuestion}
    THEN ConsumeThen(r.p, r.p.current_token, QuantifiedNode(r.p.current_token, r.val))
    ELSE IF r.p.current_token = TokRange
    THEN RepeatAfterBrace(r.val, consume_token(r.p, TokRange))
    ELSE r

\* Parser::parse_atom
parse_atom(p) == AtomQuantifier(parse_primary(p))

\* parse_concat after a parse_atom call returned r: push and loop
ConcatPush(nodes, r) ==
    IF r.kind # "Ok" THEN r ELSE ConcatLoop(r.p, Append(nodes, r.val))

\* the while loop of Parser::parse_concat and its final Ok(..)
ConcatLoop(p, nodes) ==
    IF /\ p.current_token # TokAlternation
       /\ p.current_token # TokCloseParen
       /\ p.current_token # TokEOF
    THEN ConcatPush(nodes, parse_atom(p))
    ELSE POk(IF Len(nodes) = 1 THEN nodes[1] ELSE NodeConcat(nodes), p)

\* Parser::parse_concat
parse_concat(p) == ConcatPush(<<>>, parse_atom(p))

\* parse_alternation after a parse_concat call returned r: push and loop
AlternationPush(nodes, r) ==
    IF r.kind # "Ok" THEN r ELSE AlternationLoop(r.p, Append(nodes, r.val))

\* the loop body after consume_token(Alternation) returned c
AlternationBranch(nodes, c) ==
    IF c.kind # "Ok" THEN c ELSE AlternationPush(nodes, parse_concat(c.p))

\* the while loop of Parser::parse_alternation and its final Ok(..)
AlternationLoop(p, nodes) ==
    IF p.current_token = TokAlternation
    THEN AlternationBranch(nodes, consume_token(p, TokAlternation))
    ELSE POk(IF Len(nodes) = 1 THEN nodes[1] ELSE NodeAlternation(nodes), p)

\* Parser::parse_alternation
parse_alternation(p) == AlternationPush(<<>>, parse_concat(p))

(* ------------------------------------------------------------------ *)
(* automaton.rs: NFAState and NFA                                     *)
(* ------------------------------------------------------------------ *)
StStart == <<"Start">>
StMatch == <<"Match">>
StTransition(ch, next) == <<"Transition", ch, next>>
StEpsilonTransition(next) == <<"EpsilonTransition", next>>

\* self.states[i] (Rust indices start at 0)
StateAt(states, i) == states[i + 1]
\* self.states[i] = v
SetState(states, i, v) == [states EXCEPT ![i + 1] = v]

\* the NFA struct
MkNFA(states, start, accept) == [states |-> states, start |-> start, accept |-> accept]

\* NFA::new
NFANew == MkNFA(<<StStart>>, 0, 0)

\* the states after a build_from_node call and the index it returns
BRes(states, exit) == [states |-> states, exit |-> exit]

\* the arms of build_from_node that rewrite the entry state into a
\* Transition to a fresh Match state (Char, AnyChar, the classes, the anchors)
BuildEdge(states, current_state, ch) ==
    LET new_state == Len(states)
    IN BRes(Append(SetState(states, current_state, StTransition(ch, new_state)), StMatch),
            new_state)

RECURSIVE build_from_node(_, _, _)
RECURSIVE BuildConcat(_, _, _)
RECURSIVE BuildAlternation(_, _, _, _)
RECURSIVE BuildRepeat(_, _, _, _)

\* the for loop of the Concat arm
BuildConcat(states, nodes, current) ==
    IF nodes = <<>> THEN BRes(states, current)
    ELSE LET r == build_from_node(states, Head(nodes), current)
         IN BuildConcat(r.states, Tail(nodes), r.exit)

\* the for loop of the Alternation arm; accept_state is an Option<usize>
BuildAlternation(states, nodes, start_state, accept_state) ==
    IF nodes = <<>>
    THEN BRes(states, IF accept_state # OptNone THEN accept_state[1] ELSE start_state)
    ELSE LET r == build_from_node(states, Head(nodes), start_state)
         IN IF accept_state = OptNone
            THEN BuildAlternation(r.states, Tail(nodes), start_state, OptSome(r.exit))
            ELSE BuildAlternation(SetState(r.states, r.exit, StMatch), Tail(nodes),
                                  start_state, accept_state)

\* a for loop of the Repeat arm: n further copies of node
BuildRepeat(states, node, current, n) ==
    IF n = 0 THEN BRes(states, current)
    ELSE LET r == build_from_node(states, node, current)
         IN BuildRepeat(r.states, node, r.exit, n - 1)

\* NFA::build_from_node
build_from_node(states, node, current_state) ==
    CASE node[1] = "Char" -> BuildEdge(states, current_state, node[2])
      [] node[1] = "AnyChar" -> BuildEdge(states, current_state, NUL)
      [] node[1] = "Concat" -> BuildConcat(states, node[2], current_state)
      [] node[1] = "Alternation" ->
           BuildAlternation(Append(states, StStart), node[2], Len(states), OptNone)
      [] node[1] \in {"Star", "Plus"} ->
           LET start_state == Len(states)
               r == build_from_node(Append(states, StStart), node[2], start_state)
           IN BRes(SetState(r.states, r.exit, StEpsilonTransition(start_state)),
                   start_state)
      [] node[1] = "Question" ->
           LET start_state == Len(states)
               r == build_from_node(Append(states, StStart), node[2], start_state)
           IN BRes(SetState(r.states, r.exit, StMatch), start_state)
      [] node[1] = "Repeat" ->
           LET range == node[3]
               m == BuildRepeat(states, node[2], current_state, range.min)
           IN IF range.max # OptNone
              THEN BuildRepeat(m.states, node[2], m.exit,
                               IF range.max[1] > range.min
                               THEN range.max[1] - range.min ELSE 0)
              ELSE m
      [] node[1] = "Group" -> build_from_node(states, node[2], current_state)
      [] node[1] \in {"Digit", "WordChar", "Whitespace"} ->
           BuildEdge(states, current_state, NUL)
      [] node[1] \in {"StartLine", "EndLine", "StartInput", "EndInput", "WordBoundary"} ->
           BuildEdge(states, current_state, NUL)

\* from_regex that makes the index build_from_node returns the accept state
from_regex_AcceptExit(node) ==
    LET nfa == NFANew
        r == build_from_node(nfa.states, node, 0)
    IN MkNFA(r.states, nfa.start, r.exit)

\* NFA::from_regex
from_regex(node) ==
    LET nfa == NFANew
        r == build_from_node(nfa.states, node, 0)
    IN MkNFA(r.states, nfa.start, nfa.accept)

\* transition without the guard of its Transition arm: any character passes
transition_Unguarded(nfa, state, ch) ==
    LET st == StateAt(nfa.states, state)
    IN IF st[1] \in {"Transition", "EpsilonTransition"}
       THEN OptSome(<<st[Len(st)]>>) ELSE OptNone

\* NFA::transition: Option<Vec<usize>>
transition(nfa, state, ch) ==
    LET st == StateAt(nfa.states, state)
    IN CASE st[1] = "Transition" /\ (st[2] = NUL \/ st[2] = ch) -> OptSome(<<st[3]>>)
         [] st[1] = "EpsilonTransition" -> OptSome(<<st[2]>>)
         [] OTHER -> OptNone

\* the inner for loop of NFA::matches: next_states for one character
RECURSIVE NextStates(_, _, _)
NextStates(nfa, current_states, ch) ==
    IF current_states = <<>> THEN <<>>
    ELSE LET t == transition(nfa, Head(current_states), ch)
             rest == NextStates(nfa, Tail(current_states), ch)
         IN IF t # OptNone THEN t[1] \o rest ELSE rest

\* current_states.contains(&self.accept)
Contains(v, x) == \E i \in DOMAIN v : v[i] = x

\* NFA::matches as a whole: the loop over input.chars() from the i-th
\* character on, then the final test
RECURSIVE MatchesFrom(_, _, _)
MatchesFrom(nfa, current_states, input) ==
    IF input = <<>> THEN Contains(current_states, nfa.accept)
    ELSE LET next_states == NextStates(nfa, current_states, Head(input))
         IN IF next_states = <<>> THEN FALSE
            ELSE MatchesFrom(nfa, next_states, Tail(input))

\* NFA::matches
NFAMatches(nfa, input) == MatchesFrom(nfa, <<nfa.start>>, input)

(* ------------------------------------------------------------------ *)
(* main.rs: the program state                                         *)
(* ------------------------------------------------------------------ *)
VARIABLES
    pattern,         \* cli.pattern
    file_given,      \* cli.file.is_some()
    invert_match,    \* cli.invert_match
    lines,           \* the lines the input source yields
    pc,              \* where main is: "start", "parse", "build", "open", "lines",
                     \* "match", "matched"; ended: "done", "exit1" (parse error),
                     \* "io_error", "panic"; "building" while from_regex is
                     \* taken write by write; "lex" when the Lexer is driven
                     \* alone, "consume" when consume_token is, "threads"
                     \* when several matches calls run on one NFA
    parser,          \* the Parser (lexer cursor and current token)
    regex_ast,       \* the AST parse returned, NodeNone before and on error
    parse_err,       \* the error parse returned, <<>> if none
    nfa,             \* the NFA from_regex built
    line_num,        \* number of lines read so far
    current_states,  \* matches: the active states
    chi,             \* matches: characters of the line consumed so far
    matches,         \* the result of nfa.matches(&line) for the last line
    output,          \* what was printed to stdout, in order
    build_ops,       \* from_regex taken stepwise: the writes to self.states
                     \* that build_from_node has still to make
    lex_calls,       \* number of next_token calls made on a Lexer driven alone
    threads          \* the matches calls running concurrently on one NFA:
                     \* per thread its input and the locals of NFA::matches

vars == <<pattern, file_given, invert_match, lines, pc, parser, regex_ast,
          parse_err, nfa, line_num, current_states, chi, matches, output,
          build_ops, lex_calls, threads>>

\* the variables only the stepwise build, the lone lexer and the concurrent
\* matches use
auxVars == <<build_ops, lex_calls, threads>>

\* the line being matched
line == lines[line_num]

(* ------------------------------------------------------------------ *)
(* Inputs                                                             *)
(* ------------------------------------------------------------------ *)
\* pattern characters of the generic patterns: two literals and the operators
PatChars == {"a", "b", "|", "*", "+", "?", "(", ")"}
\* characters of the generic input lines
LineChars == {"a", "b"}

\* patterns and lines named in the specification's scenarios
PatCatDog == <<"c", "a", "t", "|", "d", "o", "g">>
PatBanana == <<"b", "a", "n", "a", "n", "a">>
PatAn == <<"a", "n">>
LineCat == <<"c", "a", "t">>
LineDog == <<"d", "o", "g">>
LineCatDog == <<"c", "a", "t", "d", "o", "g">>
LineApple == <<"a", "p", "p", "l", "e">>
LineBanana == <<"b", "a", "n", "a", "n", "a">>
LineCherry == <<"c", "h", "e", "r", "r", "y">>
LineAAA == <<"a", "a", "a">>

\* range-quantified patterns: a primary, '{', a range, and a closing '}' or ']'
RangeBodies ==
    {<<"1">>, <<"2">>, <<"1", ",">>, <<"1", ",", "2">>, <<"2", ",", "1">>, <<>>,
     <<"0", ",", "2">>, <<"2", ",", "2">>}
RangePatterns ==
    {prim \o <<"{">> \o body \o <<close>> :
        prim \in {<<"a">>, <<".">>, <<"(", "a", ")">>},
        body \in RangeBodies, close \in {"}", "]"}}

\* patterns with an open parenthesis that is never closed
OpenGroupPatterns ==
    {<<"(", "a", "b">>, <<"a", "(", "b">>, <<"(", "(", "a", ")">>, <<"(", "a", "|", "b">>}

\* patterns with an escape, a class, an anchor, whitespace or a two-byte character
OtherPatterns ==
    {<<"\\", "d">>, <<".">>, <<"a", " ", "b">>, <<"^", "a", "$">>, <<"\\">>,
     <<EAcute>>, <<"a", EAcute>>, <<"a", "[", "b", "]">>}

\* primaries, each with the node parse_primary returns for it: literals, the
\* any-character, an escaped class, a group, a two-byte literal
BindingPrimaries ==
    {<<<<"a">>, NodeChar("a")>>, <<<<"b">>, NodeChar("b")>>, <<<<".">>, NodeAnyChar>>,
     <<<<"\\", "d">>, NodeDigit>>, <<<<"(", "a", ")">>, NodeGroup(NodeChar("a"))>>,
     <<<<EAcute>>, NodeChar(EAcute)>>}
\* the bodies of the quantified groups
GroupBodies == {<<"a">>, <<"a", "b">>, <<"a", "|", "b">>}
\* patterns x y Q of two primaries and a quantifier, and quantified groups
BindingPatterns ==
    {x[1] \o y[1] \o <<q>> : x \in BindingPrimaries, y \in BindingPrimaries,
                              q \in {"*", "+", "?"}}
        \cup {<<"(">> \o body \o <<")", q>> : body \in GroupBodies, q \in {"*", "+", "?"}}

Patterns ==
    SeqsUpTo(PatChars, MaxPatLen) \cup RangePatterns \cup OpenGroupPatterns
        \cup OtherPatterns \cup BindingPatterns \cup {PatCatDog, PatBanana, PatAn}

Inputs ==
    SeqsUpTo(LineChars, MaxLineLen)
        \cup {LineCat, LineDog, LineCatDog, LineBanana, LineAAA, <<"5">>, <<"a", "a", "b">>}

\* inputs of the lexer: a literal, whitespace, an operator, the escape
\* character and an escaped class letter, the range brace, a two-byte character
LexChars == {"a", " ", "(", "\\", "d", "{", EAcute, "*"}
LexInputs == SeqsUpTo(LexChars, MaxPatLen)

\* the command lines and input files of the end-to-end runs
CliPatterns == {PatBanana, PatAn, <<"a">>, <<"a", "b">>, <<"(", "a">>, <<EAcute>>}
CliLines == {LineApple, LineBanana, LineCherry, <<"a">>, <<>>}
ScenarioLines == <<LineApple, LineBanana, LineCherry>>
Files == SeqsUpTo(CliLines, MaxLines) \cup {ScenarioLines}

(* ------------------------------------------------------------------ *)
(* main.rs: the steps of main                                         *)
(* ------------------------------------------------------------------ *)
\* the program before main's first statement, after Cli::parse()
InitWith(pats, files, flags) ==
    /\ pattern \in pats
    /\ lines \in files
    /\ file_given \in flags
    /\ invert_match \in flags
    /\ pc = "start"
    /\ parser = ParserState(pattern, 0, TokNone)
    /\ regex_ast = NodeNone
    /\ parse_err = <<>>
    /\ nfa = NFANew
    /\ line_num = 0
    /\ current_states = <<>>
    /\ chi = 0
    /\ matches = FALSE
    /\ output = <<>>
    /\ build_ops = <<>>
    /\ lex_calls = 0
    /\ threads = <<>>

\* end-to-end runs: command lines and input files
Init == InitWith(CliPatterns, Files, BOOLEAN)

\* one pattern against one line read from standard input
InitMatch == InitWith(Patterns, {<<s>> : s \in Inputs}, {FALSE})

\* parser::Parser::new(&cli.pattern)
NewParser ==
    /\ pc = "start"
    /\ LET r == ParserNew(pattern)
       IN /\ parser' = r.p
          /\ pc' = IF r.kind = "Panic" THEN "panic" ELSE "parse"
    /\ UNCHANGED <<pattern, file_given, invert_match, lines, regex_ast, parse_err,
                   nfa, line_num, current_states, chi, matches, output>>
    /\ UNCHANGED auxVars

\* match parser.parse() { Ok(ast) => ast, Err(e) => { eprintln!; exit(1) } }
Parse ==
    /\ pc = "parse"
    /\ LET r == parse(parser)
       IN /\ parser' = r.p
          /\ regex_ast' = r.val
          /\ parse_err' = r.err
          /\ pc' = CASE r.kind = "Ok" -> "build"
                     [] r.kind = "Err" -> "exit1"
                     [] r.kind = "Panic" -> "panic"
    /\ UNCHANGED <<pattern, file_given, invert_match, lines, nfa, line_num,
                   current_states, chi, matches, output>>
    /\ UNCHANGED auxVars

\* let nfa = automaton::NFA::from_regex(&regex_ast)
FromRegex ==
    /\ pc = "build"
    /\ nfa' = from_regex(regex_ast)
    /\ pc' = "open"
    /\ UNCHANGED <<pattern, file_given, invert_match, lines, parser, regex_ast,
                   parse_err, line_num, current_states, chi, matches, output>>
    /\ UNCHANGED auxVars

\* File::open(filename)? or io::stdin().lock(); opening a file may fail
OpenInput ==
    /\ pc = "open"
    /\ pc' \in (IF file_given THEN {"lines", "io_error"} ELSE {"lines"})
    /\ UNCHANGED <<pattern, file_given, invert_match, lines, parser, regex_ast,
                   parse_err, nfa, line_num, current_states, chi, matches, output>>
    /\ UNCHANGED auxVars

\* the next item of input.lines(): a line, whose match then starts with
\* current_states = vec![self.start], a read error (line? returns it from
\* main), or the end of the input
ReadLine ==
    /\ pc = "lines"
    /\ \E read_ok \in BOOLEAN :
          IF line_num < Len(lines) /\ read_ok
          THEN /\ line_num' = line_num + 1
               /\ current_states' = <<nfa.start>>
               /\ chi' = 0
               /\ pc' = "match"
          ELSE /\ pc' = IF line_num < Len(lines) THEN "io_error" ELSE "done"
               /\ UNCHANGED <<line_num, current_states, chi>>
    /\ UNCHANGED <<pattern, file_given, invert_match, lines, parser, regex_ast,
                   parse_err, nfa, matches, output>>
    /\ UNCHANGED auxVars

\* one iteration of the loop over input.chars() in NFA::matches
MatchStep ==
    /\ pc = "match"
    /\ chi < Len(line)
    /\ LET next_states == NextStates(nfa, current_states, line[chi + 1])
       IN IF next_states = <<>>
          THEN /\ matches' = FALSE
               /\ pc' = "matched"
               /\ UNCHANGED <<current_states, chi>>
          ELSE /\ current_states' = next_states
               /\ chi' = chi + 1
               /\ UNCHANGED <<matches, pc>>
    /\ UNCHANGED <<pattern, file_given, invert_match, lines, parser, regex_ast,
                   parse_err, nfa, line_num, output>>
    /\ UNCHANGED auxVars

\* the end of NFA::matches: current_states.contains(&self.accept)
MatchReturn ==
    /\ pc = "match"
    /\ chi = Len(line)
    /\ matches' = Contains(current_states, nfa.accept)
    /\ pc' = "matched"
    /\ UNCHANGED <<pattern, file_given, invert_match, lines, parser, regex_ast,
                   parse_err, nfa, line_num, current_states, chi, output>>
    /\ UNCHANGED auxVars

\* what main prints for a line it decides to print
Printed(n, text) ==
    IF file_given THEN <<<<"file", n>>, <<"line", text>>>> ELSE <<<<"line", text>>>>

\* should_print and the println! calls
PrintLine ==
    /\ pc = "matched"
    /\ LET should_print == IF invert_match THEN ~matches ELSE matches
       IN output' = IF should_print THEN output \o Printed(line_num, line) ELSE output
    /\ pc' = "lines"
    /\ UNCHANGED <<pattern, file_given, invert_match, lines, parser, regex_ast,
                   parse_err, nfa, line_num, current_states, chi, matches>>
    /\ UNCHANGED auxVars

Next ==
    \/ NewParser
    \/ Parse
    \/ FromRegex
    \/ OpenInput
    \/ ReadLine
    \/ MatchStep
    \/ MatchReturn
    \/ PrintLine

Spec == Init /\ [][Next]_vars

(* ------------------------------------------------------------------ *)
(* tokens.rs: the Lexer driven on its own                             *)
(* ------------------------------------------------------------------ *)
\* Lexer::new(input): the cursor at 0, no token returned yet
InitLexer ==
    /\ pattern \in LexInputs
    /\ lines = <<>>
    /\ file_given = FALSE
    /\ invert_match = FALSE
    /\ pc = "lex"
    /\ parser = ParserState(pattern, 0, TokNone)
    /\ regex_ast = NodeNone
    /\ parse_err = <<>>
    /\ nfa = NFANew
    /\ line_num = 0
    /\ current_states = <<>>
    /\ chi = 0
    /\ matches = FALSE
    /\ output = <<>>
    /\ build_ops = <<>>
    /\ lex_calls = 0
    /\ threads = <<>>

\* one call of lexer.next_token(); current_token holds the token returned
LexerNextToken ==
    /\ pc = "lex"
    /\ lex_calls < MaxLexCalls
    /\ LET lx == next_token(parser.input, parser.position)
       IN /\ parser' = ParserState(parser.input, lx.pos, lx.tok)
          /\ pc' = IF lx.panicked THEN "panic" ELSE "lex"
    /\ lex_calls' = lex_calls + 1
    /\ UNCHANGED <<pattern, file_given, invert_match, lines, regex_ast, parse_err,
                   nfa, line_num, current_states, chi, matches, output>>
    /\ UNCHANGED <<build_ops, threads>>

NextLexer == LexerNextToken

SpecLexer == InitLexer /\ [][NextLexer]_vars

SpecMatch == InitMatch /\ [][Next]_vars

(* ------------------------------------------------------------------ *)
(* parser.rs: consume_token driven on its own                         *)
(* ------------------------------------------------------------------ *)
\* the tokens the parser's call sites pass as expected, besides a copy of
\* the current token
ExpectedTokens == {TokCloseParen, TokCloseBracket, TokStar, TokChar("a"), TokChar(","), TokEOF}

\* Parser::new(input) has returned
InitParser ==
    /\ pattern \in LexInputs
    /\ lines = <<>>
    /\ file_given = FALSE
    /\ invert_match = FALSE
    /\ pc = IF ParserNew(pattern).kind = "Panic" THEN "panic" ELSE "consume"
    /\ parser = ParserNew(pattern).p
    /\ regex_ast = NodeNone
    /\ parse_err = <<>>
    /\ nfa = NFANew
    /\ line_num = 0
    /\ current_states = <<>>
    /\ chi = 0
    /\ matches = FALSE
    /\ output = <<>>
    /\ build_ops = <<>>
    /\ lex_calls = 0
    /\ threads = <<>>

\* one call self.consume_token(expected); parse_err holds the Err it
\* returned, <<>> after Ok
ConsumeToken(expected) ==
    /\ pc = "consume"
    /\ LET r == consume_token(parser, expected)
       IN /\ parser' = r.p
          /\ parse_err' = r.err
          /\ pc' = IF r.kind = "Panic" THEN "panic" ELSE "consume"
    /\ UNCHANGED <<pattern, file_given, invert_match, lines, regex_ast, nfa,
                   line_num, current_states, chi, matches, output>>
    /\ UNCHANGED auxVars

NextParser == \E expected \in ExpectedTokens \cup {parser.current_token} : ConsumeToken(expected)

SpecParser == InitParser /\ [][NextParser]_vars

(* ------------------------------------------------------------------ *)
(* automaton.rs: several matches calls on one NFA                     *)
(* ------------------------------------------------------------------ *)
\* patterns whose NFA the concurrent calls share
ThreadPatterns ==
    {<<"a">>, <<"a", "b">>, <<"a", ".">>, <<"a", "*">>, <<"a", "|", "b">>}

\* a call matches(&self, input) at its first statement:
\* let mut current_states = vec![self.start]
MatchesCall(n, input) ==
    [input |-> input, current_states |-> <<n.start>>, chi |-> 0,
     pc |-> "run", result |-> FALSE]

\* current_states = next_states written to a buffer all the calls share
StoreStates_Shared(ths, t, next_states) ==
    [u \in DOMAIN ths |->
        IF u = t THEN [ths[u] EXCEPT !.current_states = next_states, !.chi = @ + 1]
        ELSE [ths[u] EXCEPT !.current_states = next_states]]

\* current_states = next_states: a local of the call, as is the iterator
\* over input.chars()
StoreStates(ths, t, next_states) ==
    [ths EXCEPT ![t].current_states = next_states, ![t].chi = @ + 1]

\* the NFA is built, and every thread has called matches with its own input
InitThreads ==
    /\ pattern \in ThreadPatterns
    /\ lines = <<>>
    /\ file_given = FALSE
    /\ invert_match = FALSE
    /\ pc = "threads"
    /\ parser = parse(ParserNew(pattern).p).p
    /\ regex_ast = parse(ParserNew(pattern).p).val
    /\ parse_err = <<>>
    /\ nfa = from_regex(parse(ParserNew(pattern).p).val)
    /\ line_num = 0
    /\ current_states = <<>>
    /\ chi = 0
    /\ matches = FALSE
    /\ output = <<>>
    /\ build_ops = <<>>
    /\ lex_calls = 0
    /\ threads \in [1..NThreads ->
                       {MatchesCall(from_regex(parse(ParserNew(pattern).p).val), s) :
                           s \in SeqsUpTo(LineChars, MaxLineLen)}]

\* thread t runs one iteration of the loop over input.chars()
ThreadStep(t) ==
    /\ threads[t].pc = "run"
    /\ threads[t].chi < Len(threads[t].input)
    /\ LET next_states == NextStates(nfa, threads[t].current_states,
                                     threads[t].input[threads[t].chi + 1])
       IN threads' = IF next_states = <<>>
                     THEN [threads EXCEPT ![t].result = FALSE, ![t].pc = "returned"]
                     ELSE StoreStates(threads, t, next_states)
    /\ UNCHANGED <<pattern, file_given, invert_match, lines, pc, parser, regex_ast,
                   parse_err, nfa, line_num, current_states, chi, matches, output>>
    /\ UNCHANGED <<build_ops, lex_calls>>

\* thread t returns current_states.contains(&self.accept)
ThreadReturn(t) ==
    /\ threads[t].pc = "run"
    /\ threads[t].chi = Len(threads[t].input)
    /\ threads' = [threads EXCEPT
                      ![t].result = Contains(threads[t].current_states, nfa.accept),
                      ![t].pc = "returned"]
    /\ UNCHANGED <<pattern, file_given, invert_match, lines, pc, parser, regex_ast,
                   parse_err, nfa, line_num, current_states, chi, matches, output>>
    /\ UNCHANGED <<build_ops, lex_calls>>

NextThreads == \E t \in 1..NThreads : ThreadStep(t) \/ ThreadReturn(t)

SpecThreads == InitThreads /\ [][NextThreads]_vars

(* ------------------------------------------------------------------ *)
(* automaton.rs: from_regex taken one write at a time                 *)
(* ------------------------------------------------------------------ *)
\* what build_from_node does to self.states, in order: self.states[i] = v,
\* self.states.push(v), and the return of a call with the index it returns
OpSet(i, v) == <<"set", i, v>>
OpPush(v) == <<"push", v>>
OpReturn(exit) == <<"return", exit>>

\* the writes of a build_from_node call entered with self.states.len() = n,
\* the length it leaves and the index it returns
ORes(ops, len, exit) == [ops |-> ops, len |-> len, exit |-> exit]

\* the writes pre, then those of r
OpsThen(pre, r) == ORes(pre \o r.ops, r.len, r.exit)

\* the writes of r, then the return of the call with r's index
Returned(r) == ORes(r.ops \o <<OpReturn(r.exit)>>, r.len, r.exit)

\* an edge arm whose Transition points one past the state it pushes
EdgeOps_PastEnd(n, current_state, ch) ==
    ORes(<<OpSet(current_state, StTransition(ch, n + 1)), OpPush(StMatch)>>, n + 1, n)

\* the arms that rewrite the entry state and push a Match state
EdgeOps(n, current_state, ch) ==
    ORes(<<OpSet(current_state, StTransition(ch, n)), OpPush(StMatch)>>, n + 1, n)

RECURSIVE BuildOps(_, _, _)
RECURSIVE ConcatOps(_, _, _)
RECURSIVE AlternationOps(_, _, _, _)
RECURSIVE RepeatOps(_, _, _, _)

\* the Concat loop after a call returned r
ConcatRest(r, nodes) == OpsThen(r.ops, ConcatOps(r.len, nodes, r.exit))

\* the for loop of the Concat arm
ConcatOps(n, nodes, current) ==
    IF nodes = <<>> THEN ORes(<<>>, n, current)
    ELSE ConcatRest(BuildOps(n, Head(nodes), current), Tail(nodes))

\* the Alternation loop after the call for a branch returned r
AlternationRest(r, nodes, start_state, accept_state) ==
    IF accept_state = OptNone
    THEN OpsThen(r.ops, AlternationOps(r.len, nodes, start_state, OptSome(r.exit)))
    ELSE OpsThen(r.ops \o <<OpSet(r.exit, StMatch)>>,
                 AlternationOps(r.len, nodes, start_state, accept_state))

\* the for loop of the Alternation arm
AlternationOps(n, nodes, start_state, accept_state) ==
    IF nodes = <<>>
    THEN ORes(<<>>, n, IF accept_state # OptNone THEN accept_state[1] ELSE start_state)
    ELSE AlternationRest(BuildOps(n, Head(nodes), start_state), Tail(nodes),
                         start_state, accept_state)

\* a Repeat loop after a call returned r
RepeatRest(r, node, k) == OpsThen(r.ops, RepeatOps(r.len, node, r.exit, k))

\* a for loop of the Repeat arm: k further copies
RepeatOps(n, node, current, k) ==
    IF k = 0 THEN ORes(<<>>, n, current)
    ELSE RepeatRest(BuildOps(n, node, current), node, k - 1)

\* the Repeat arm after its first loop returned m
RepeatExtra(m, node, range) ==
    IF range.max # OptNone
    THEN OpsThen(m.ops, RepeatOps(m.len, node, m.exit,
                                  IF range.max[1] > range.min
                                  THEN range.max[1] - range.min ELSE 0))
    ELSE m

\* the Star, Plus and Question arms after the inner call returned r
LoopClose(r, start_state, closing) ==
    ORes(<<OpPush(StStart)>> \o r.ops \o <<OpSet(r.exit, closing)>>, r.len, start_state)

\* the arms of build_from_node
ArmOps(n, node, current_state) ==
    CASE node[1] = "Char" -> EdgeOps(n, current_state, node[2])
      [] node[1] = "AnyChar" -> EdgeOps(n, current_state, NUL)
      [] node[1] = "Concat" -> ConcatOps(n, node[2], current_state)
      [] node[1] = "Alternation" ->
           OpsThen(<<OpPush(StStart)>>, AlternationOps(n + 1, node[2], n, OptNone))
      [] node[1] \in {"Star", "Plus"} ->
           LoopClose(BuildOps(n + 1, node[2], n), n, StEpsilonTransition(n))
      [] node[1] = "Question" ->
           LoopClose(BuildOps(n + 1, node[2], n), n, StMatch)
      [] node[1] = "Repeat" ->
           RepeatExtra(RepeatOps(n, node[2], current_state, node[3].min), node[2], node[3])
      [] node[1] = "Group" -> BuildOps(n, node[2], current_state)
      [] node[1] \in {"Digit", "WordChar", "Whitespace"} ->
           EdgeOps(n, current_state, NUL)
      [] node[1] \in {"StartLine", "EndLine", "StartInput", "EndInput", "WordBoundary"} ->
           EdgeOps(n, current_state, NUL)

\* NFA::build_from_node as the sequence of its writes and returns
BuildOps(n, node, current_state) == Returned(ArmOps(n, node, current_state))

\* one write applied to self.states
ApplyOp(states, op) ==
    CASE op[1] = "set" -> SetState(states, op[2], op[3])
      [] op[1] = "push" -> Append(states, op[2])
      [] op[1] = "return" -> states

\* one pattern, compiled write by write, against one line
InitBuild == InitWith(Patterns, {<<s>> : s \in SeqsUpTo(LineChars, MaxLineLen)}, {FALSE})

\* let mut nfa = Self::new(); nfa.build_from_node(node, 0) is entered
BuildBegin ==
    /\ pc = "build"
    /\ nfa' = NFANew
    /\ build_ops' = BuildOps(Len(NFANew.states), regex_ast, 0).ops
    /\ pc' = "building"
    /\ UNCHANGED <<pattern, file_given, invert_match, lines, parser, regex_ast,
                   parse_err, line_num, current_states, chi, matches, output>>
    /\ UNCHANGED <<lex_calls, threads>>

\* the next write of build_from_node, or the return of one of its calls
BuildStep ==
    /\ pc = "building"
    /\ build_ops # <<>>
    /\ nfa' = [nfa EXCEPT !.states = ApplyOp(nfa.states, Head(build_ops))]
    /\ build_ops' = Tail(build_ops)
    /\ UNCHANGED <<pattern, file_given, invert_match, lines, pc, parser, regex_ast,
                   parse_err, line_num, current_states, chi, matches, output>>
    /\ UNCHANGED <<lex_calls, threads>>

\* from_regex returns nfa
BuildEnd ==
    /\ pc = "building"
    /\ build_ops = <<>>
    /\ pc' = "open"
    /\ UNCHANGED <<pattern, file_given, invert_match, lines, parser, regex_ast,
                   parse_err, nfa, line_num, current_states, chi, matches, output>>
    /\ UNCHANGED auxVars

NextBuild ==
    \/ NewParser
    \/ Parse
    \/ BuildBegin
    \/ BuildStep
    \/ BuildEnd
    \/ OpenInput
    \/ ReadLine
    \/ MatchStep
    \/ MatchReturn
    \/ PrintLine

SpecBuild == InitBuild /\ [][NextBuild]_vars

(* ------------------------------------------------------------------ *)
(* Vocabulary of the properties                                       *)
(* ------------------------------------------------------------------ *)
\* the characters the lexer treats specially, and the whitespace it skips
MetaChars == {"(", ")", "[", "]", "*", "+", "?", "|", ".", "^", "$", "\\", "{"}
WhitespaceChars == {" ", "\t", "\n", "\r"}

\* a literal, non-whitespace pattern character
IsLiteralChar(c) == c \notin MetaChars /\ c \notin WhitespaceChars

\* a non-empty pattern made only of literal characters
IsLiteralPattern(p) == p # <<>> /\ \A i \in DOMAIN p : IsLiteralChar(p[i])

\* p parses, and the parse has consumed all of p
WellFormed(p) ==
    /\ ParserNew(p).kind = "Ok"
    /\ parse(ParserNew(p).p).kind = "Ok"
    /\ parse(ParserNew(p).p).p.current_token = TokEOF

\* the AST of a well-formed pattern
AstOf(p) == parse(ParserNew(p).p).val

\* matches(p, s): p compiled with Parser::parse and NFA::from_regex, run on s
PatternMatches(p, s) == WellFormed(p) /\ NFAMatches(from_regex(AstOf(p)), s)

\* the program has left the parsing of the pattern behind
Parsed == pc \notin {"start", "parse", "lex"}

\* a match of the current line has just returned
Matched == pc = "matched"

\* the strings "a", "aa", ...: one or more 'a'
IsAs(s) == s # <<>> /\ \A i \in DOMAIN s : s[i] = "a"

\* the states with a Match tag
MatchTagged(n) == {i \in 0..(Len(n.states) - 1) : StateAt(n.states, i) = StMatch}

\* the targets of the Transition edges of the states in S whose predicate
\* (the sentinel NUL for "any", else a literal) the character ch satisfies
OneTransitionEdge(n, S, ch) ==
    {StateAt(n.states, i)[3] :
        i \in {j \in S : /\ StateAt(n.states, j)[1] = "Transition"
                         /\ StateAt(n.states, j)[2] \in {NUL, ch}}}

\* S and the targets of the EpsilonTransition edges leaving S
EpsilonStep(n, S) ==
    S \cup {StateAt(n.states, i)[2] :
               i \in {j \in S : StateAt(n.states, j)[1] = "EpsilonTransition"}}

\* the closure of S under EpsilonTransition edges
RECURSIVE EpsilonClosure(_, _)
EpsilonClosure(n, S) ==
    IF EpsilonStep(n, S) = S THEN S ELSE EpsilonClosure(n, EpsilonStep(n, S))

\* the active set when matches returned: empty after the early return
ActiveAtReturn ==
    IF chi < Len(line) THEN {}
    ELSE IF Len(line) = 0 THEN EpsilonClosure(nfa, {nfa.start})
    ELSE Range(current_states)

\* the text lines of the output, without the "file:line" headers
RECURSIVE PrintedLines(_)
PrintedLines(out) ==
    IF out = <<>> THEN <<>>
    ELSE IF Head(out)[1] = "line" THEN <<Head(out)[2]>> \o PrintedLines(Tail(out))
    ELSE PrintedLines(Tail(out))

\* the lines of ls that are equal to p (keep = TRUE) or not equal to p
RECURSIVE LinesEqual(_, _, _)
LinesEqual(ls, p, keep) ==
    IF ls = <<>> THEN <<>>
    ELSE IF (Head(ls) = p) = keep THEN <<Head(ls)>> \o LinesEqual(Tail(ls), p, keep)
    ELSE LinesEqual(Tail(ls), p, keep)

(* ------------------------------------------------------------------ *)
(* C1 - C5: what matches answers                                      *)
(* ------------------------------------------------------------------ *)
\* C1: for a pattern p of literal characters and any line s, matches(s) is
\* true exactly when s = p (whole-string equality).
C1_LiteralEquality ==
    (Matched /\ IsLiteralPattern(pattern)) => (matches <=> (line = pattern))

\* C2: matches(a|b, s) = matches(a, s) \/ matches(b, s) for well-formed a and
\* b, and "cat|dog" matches "cat" and "dog" but not "catdog".
C2_AlternationDistributes ==
    Matched =>
        /\ \A k \in DOMAIN pattern :
              (/\ pattern[k] = "|"
               /\ WellFormed(SubSeq(pattern, 1, k - 1))
               /\ WellFormed(SubSeq(pattern, k + 1, Len(pattern))))
              => (matches <=> (\/ PatternMatches(SubSeq(pattern, 1, k - 1), line)
                               \/ PatternMatches(SubSeq(pattern, k + 1, Len(pattern)), line)))
        /\ (pattern = PatCatDog /\ line \in {LineCat, LineDog}) => matches
        /\ (pattern = PatCatDog /\ line = LineCatDog) => ~matches

\* C3: "a*" matches the empty line and every line of one or more 'a', and
\* does not match "b".
C3_StarEmptyAndRepetition ==
    (Matched /\ pattern = <<"a", "*">>) =>
        /\ (line = <<>> \/ IsAs(line)) => matches
        /\ line = <<"b">> => ~matches

\* C4: "a+" does not match the empty line and matches every line of one or
\* more 'a'.
C4_PlusExcludesEmpty ==
    (Matched /\ pattern = <<"a", "+">>) =>
        /\ line = <<>> => ~matches
        /\ IsAs(line) => matches

\* C5: matches returns true exactly when the active set after the last
\* character holds a Match-tagged state (for the empty line: when the epsilon
\* closure of {start} does); the accept index does not decide the result.
C5_AcceptanceByMatchTag ==
    Matched => (matches <=> (ActiveAtReturn \cap MatchTagged(nfa) # {}))

(* ------------------------------------------------------------------ *)
(* C6: the unmatched open parenthesis                                 *)
(* ------------------------------------------------------------------ *)
\* the number of open parentheses of p that no later close parenthesis matches
RECURSIVE OpenDepth(_, _)
OpenDepth(p, d) ==
    IF p = <<>> THEN d
    ELSE IF Head(p) = "(" THEN OpenDepth(Tail(p), d + 1)
    ELSE IF Head(p) = ")" /\ d > 0 THEN OpenDepth(Tail(p), d - 1)
    ELSE OpenDepth(Tail(p), d)

\* p has an unmatched open parenthesis (and no escape, so that every
\* parenthesis character is a parenthesis token)
HasUnmatchedOpenParen(p) ==
    (\A i \in DOMAIN p : p[i] \notin {"\\", EAcute}) /\ OpenDepth(p, 0) > 0

\* the parse failed with "Expected CloseParen, got <actual>"
NamesCloseParen == parse_err # <<>> /\ parse_err[1] = "Expected" /\ parse_err[2] = TokCloseParen

\* the first error ended the run: no AST, no NFA, no line read, and the
\* parser stands on the token the error names (nothing was skipped)
AbortedAtFirstError ==
    /\ pc = "exit1"
    /\ regex_ast = NodeNone
    /\ parse_err # <<>>
    /\ parse_err[Len(parse_err)] = parser.current_token
    /\ nfa = NFANew /\ line_num = 0 /\ output = <<>>

IsUnclosedGroup(p) ==
    \E k \in DOMAIN p :
        /\ p[k] = "("
        /\ \A i \in 1..(k - 1) : p[i] = "(" \/ (IsLiteralChar(p[i]) /\ Utf8Len(p[i]) = 1)
        /\ WellFormed(SubSeq(p, k + 1, Len(p)))

C7_LineFiltering ==
    (pc = "done" /\ IsLiteralPattern(pattern)) =>
        PrintedLines(output) = LinesEqual(lines, pattern, ~invert_match)

C9_LexerNeverFails == pc # "panic"

(* ------------------------------------------------------------------ *)
(* C10: the range quantifier                                          *)
(* ------------------------------------------------------------------ *)
\* the range between the braces: d, d ',' or d ',' e with single digits
IsRangeBody(b) ==
    \/ Len(b) = 1 /\ IsAsciiDigit(b[1])
    \/ Len(b) = 2 /\ IsAsciiDigit(b[1]) /\ b[2] = ","
    \/ Len(b) = 3 /\ IsAsciiDigit(b[1]) /\ b[2] = "," /\ IsAsciiDigit(b[3])

RangeOf(b) == RepeatRange(ToDigit(b[1]), IF Len(b) = 3 THEN OptSome(ToDigit(b[3])) ELSE OptNone)

\* C10: a primary followed by '{' range '}' is accepted and parses to
\* Repeat(primary, range) with min and max the digits of the range.
C10_RangeQuantifier ==
    Parsed =>
        \A k \in DOMAIN pattern :
            (/\ pattern[k] = "{"
             /\ pattern[Len(pattern)] = "}"
             /\ WellFormed(SubSeq(pattern, 1, k - 1))
             /\ AstOf(SubSeq(pattern, 1, k - 1))[1] \in {"Char", "AnyChar", "Group"}
             /\ IsRangeBody(SubSeq(pattern, k + 1, Len(pattern) - 1)))
            => /\ pc # "exit1"
               /\ regex_ast = NodeRepeat(AstOf(SubSeq(pattern, 1, k - 1)),
                                         RangeOf(SubSeq(pattern, k + 1, Len(pattern) - 1)))

(* ------------------------------------------------------------------ *)
(* C11 - C13: Question, the digit class, the any-character            *)
(* ------------------------------------------------------------------ *)
\* C11: "a?" matches the empty line and "a", and does not match "aa".
C11_QuestionZeroOrOne ==
    (Matched /\ pattern = <<"a", "?">>) =>
        /\ line \in {<<>>, <<"a">>} => matches
        /\ line = <<"a", "a">> => ~matches

\* C12: "\d" matches a one-character line exactly when the character is a
\* digit: "5" matches, "a" does not.
C12_DigitClassMembership ==
    (Matched /\ pattern = <<"\\", "d">> /\ Len(line) = 1) =>
        (matches <=> IsAsciiDigit(line[1]))

\* C13: "." matches every one-character line, and neither the empty line nor
\* a two-character line.
C13_AnyCharConsumesOne ==
    (Matched /\ pattern = <<".">>) =>
        /\ Len(line) = 1 => matches
        /\ Len(line) \in {0, 2} => ~matches

(* ------------------------------------------------------------------ *)
(* C14: the frame of consume_token                                    *)
(* ------------------------------------------------------------------ *)
\* consume_token(expected) returned Ok, and the current token and the cursor
\* are those the lexer's next call yields
ConsumedOk ==
    /\ pc' = "consume"
    /\ parse_err' = <<>>
    /\ parser'.current_token = next_token(parser.input, parser.position).tok
    /\ parser'.position = next_token(parser.input, parser.position).pos

\* consume_token(expected) returned the Err naming expected and the current
\* token, and the parser is as it was
ConsumeRefused(expected) ==
    /\ pc' = "consume"
    /\ parse_err' = ErrExpected(expected, parser.current_token)
    /\ parser' = parser

\* C14: a call of consume_token(expected) with the current token equal to
\* expected makes the lexer's next token the current token and returns Ok;
\* any other call returns Err naming the expected and the actual token and
\* leaves the current token and the lexer cursor unchanged.
C14_ConsumeTokenFrame ==
    [][\A expected \in ExpectedTokens \cup {parser.current_token} :
          ConsumeToken(expected) =>
              IF parser.current_token = expected
              THEN ConsumedOk
              ELSE ConsumeRefused(expected)]_vars

\* the same frame on the calls whose lexer call returns a token
ConsumeTokenFrameWhenLexerReturns ==
    [][\A expected \in ExpectedTokens \cup {parser.current_token} :
          (ConsumeToken(expected) /\ pc' # "panic") =>
              IF parser.current_token = expected
              THEN ConsumedOk
              ELSE ConsumeRefused(expected)]_vars

(* ------------------------------------------------------------------ *)
(* C15: the lexer at the end of the input                             *)
(* ------------------------------------------------------------------ *)
\* C15: once next_token has returned EOF, every later call of next_token
\* returns EOF again and leaves the cursor where it was.
C15_EofIdempotentTail ==
    [][(pc = "lex" /\ parser.current_token = TokEOF) =>
          /\ pc' = "lex"
          /\ parser'.current_token = TokEOF
          /\ parser'.position = parser.position]_vars

\* next_token was called at least twice after the last token of a non-empty
\* pattern, and returned EOF
C15_Witness ==
    /\ pc = "lex"
    /\ pattern # <<>>
    /\ parser.current_token = TokEOF
    /\ lex_calls >= Len(pattern) + 2

(* ------------------------------------------------------------------ *)
(* C16: what a quantifier binds to                                    *)
(* ------------------------------------------------------------------ *)
\* the token of a quantifier character
QuantifierToken(q) ==
    CASE q = "*" -> TokStar [] q = "+" -> TokPlus [] q = "?" -> TokQuestion

\* a pattern x y Q with x and y among prims has parsed to Concat[x, Q(y)], and
\* a pattern ( body ) Q to Q(Group(body))
BindsToPrimary(prims) ==
    Parsed =>
        /\ \A x \in prims, y \in prims, q \in {"*", "+", "?"} :
              pattern = x[1] \o y[1] \o <<q>> =>
                  regex_ast = NodeConcat(<<x[2], QuantifiedNode(QuantifierToken(q), y[2])>>)
        /\ \A body \in GroupBodies, q \in {"*", "+", "?"} :
              pattern = <<"(">> \o body \o <<")", q>> =>
                  regex_ast = QuantifiedNode(QuantifierToken(q), NodeGroup(AstOf(body)))

\* C16: a pattern x y Q of two primaries and a quantifier parses to
\* Concat[x, Q(y)], and a quantifier after a parenthesised group wraps the
\* Group node.
C16_QuantifierBindsToPrimary == BindsToPrimary(BindingPrimaries)

\* the same for the primaries that are one byte long each
QuantifierBindsToSingleBytePrimary ==
    BindsToPrimary({x \in BindingPrimaries : \A i \in DOMAIN x[1] : Utf8Len(x[1][i]) = 1})

(* ------------------------------------------------------------------ *)
(* C17: the NFA under concurrent matches calls                        *)
(* ------------------------------------------------------------------ *)
\* C17: no step of a matches call changes the NFA's states, start or accept,
\* and in every interleaving of the calls each call returns what matches
\* returns for its input when it runs alone.
C17_MatchesIndependent ==
    /\ [][nfa' = nfa]_vars
    /\ [](\A t \in DOMAIN threads :
             threads[t].pc = "returned" =>
                 threads[t].result = NFAMatches(nfa, threads[t].input))

\* all calls have returned, two of them with different results, one after
\* two steps
C17_Witness ==
    /\ pc = "threads"
    /\ \A t \in DOMAIN threads : threads[t].pc = "returned"
    /\ threads[1].result # threads[2].result
    /\ \E t \in DOMAIN threads : threads[t].chi = 2

(* ------------------------------------------------------------------ *)
(* C18: the indices during and after the construction                 *)
(* ------------------------------------------------------------------ *)
\* t is s with one state appended, or s with at most one state rewritten in
\* place: nothing is removed, inserted before the end or moved
GrownInPlace(s, t) ==
    \/ Len(t) = Len(s) + 1 /\ SubSeq(t, 1, Len(s)) = s
    \/ Len(t) = Len(s) /\ Cardinality({i \in DOMAIN s : t[i] # s[i]}) <= 1

\* every Transition and EpsilonTransition edge of n points to a state of n
EdgesInRange(n) ==
    \A i \in 0..(Len(n.states) - 1) :
        StateAt(n.states, i)[1] \in {"Transition", "EpsilonTransition"} =>
            StateAt(n.states, i)[Len(StateAt(n.states, i))] < Len(n.states)

\* from_regex has returned
Built == pc \notin {"start", "parse", "build", "building", "exit1", "panic"}

\* C18: every step of from_regex leaves the states where they are (it appends
\* one or rewrites one in place) and start at 0; the index a build_from_node
\* call returns is that of an existing state; once from_regex has returned
\* every edge points to an existing state, and matches only ever holds
\* indices of existing states.
C18_IndexStability ==
    /\ [][pc = "building" =>
             /\ GrownInPlace(nfa.states, nfa'.states)
             /\ nfa'.start = 0
             /\ (build_ops # <<>> /\ Head(build_ops)[1] = "return")
                    => Head(build_ops)[2] < Len(nfa.states)]_vars
    /\ [](Built => (EdgesInRange(nfa) /\ nfa.start = 0))
    /\ [](pc = "match" => \A i \in DOMAIN current_states :
                             current_states[i] < Len(nfa.states))

\* from_regex has returned an NFA with an epsilon back edge, and matches has
\* followed one edge of it
C18_Witness ==
    /\ pc = "match"
    /\ chi = 1
    /\ \E i \in 0..(Len(nfa.states) - 1) : StateAt(nfa.states, i)[1] = "EpsilonTransition"

\* the writes taken one at a time leave the NFA from_regex returns
StepwiseBuildAgrees == Built => nfa = from_regex(regex_ast)

(* ------------------------------------------------------------------ *)
(* C19: the bounded repeat                                            *)
(* ------------------------------------------------------------------ *)
\* k copies of the character c
Copies(c, k) == [i \in 1..k |-> c]

\* the states active after the line s, from the set S: per character the
\* targets of the Transition edges it satisfies, closed under epsilon edges
RECURSIVE ActiveAfter(_, _, _)
ActiveAfter(n, S, s) ==
    IF s = <<>> THEN S
    ELSE ActiveAfter(n, EpsilonClosure(n, OneTransitionEdge(n, S, Head(s))), Tail(s))

\* the fragment built from the start state admits the line s: it leads from
\* the start state to a Match-tagged state
Admits(n, s) ==
    ActiveAfter(n, EpsilonClosure(n, {n.start}), s) \cap MatchTagged(n) # {}

\* C19: the NFA built for Repeat(node, {min, Some(max)}) with max >= min and
\* node one of 'a', '.', (a) chains min mandatory copies of node and max - min
\* copies that can be skipped: it admits k copies of 'a' exactly for k between
\* min and max.
C19_BoundedRepeatUnrolling ==
    (/\ Built
     /\ regex_ast[1] = "Repeat"
     /\ regex_ast[2] \in {NodeChar("a"), NodeAnyChar, NodeGroup(NodeChar("a"))}
     /\ regex_ast[3].max # OptNone
     /\ regex_ast[3].max[1] >= regex_ast[3].min)
    => \A k \in 0..(regex_ast[3].max[1] + 1) :
           Admits(nfa, Copies("a", k))
               <=> (regex_ast[3].min <= k /\ k <= regex_ast[3].max[1])

(* ------------------------------------------------------------------ *)
(* C20: the pipeline runs to completion                               *)
(* ------------------------------------------------------------------ *)
\* every step of the three phases brings its phase nearer to its end: the
\* call of parse returns with one of the outcomes in parse_ends; from_regex
\* has one write fewer to make, or returns; matches has consumed one more
\* character of the line, or returns
PhasesProgress(parse_ends) ==
    /\ pc = "parse" => pc' \in parse_ends
    /\ pc = "build" => pc' = "building"
    /\ pc = "building" =>
           \/ pc' = "building" /\ Len(build_ops') < Len(build_ops)
           \/ pc' = "open"
    /\ pc = "match" =>
           \/ pc' = "match" /\ chi' = chi + 1 /\ chi' <= Len(line)
           \/ pc' = "matched" /\ matches' \in BOOLEAN

\* C20: parse returns Ok or Err for every pattern, from_regex returns for
\* every AST parse returned, and matches returns a boolean for every line,
\* also on an NFA with an epsilon back edge: each phase makes progress with
\* every step towards its return and is never stuck before it.
C20_RunsToCompletion ==
    /\ [][PhasesProgress({"build", "exit1"})]_vars
    /\ [](pc = "match" => chi <= Len(line))

\* the same, with the panic of the lexer counted as an end of parse
RunsToCompletionOrPanics ==
    /\ [][PhasesProgress({"build", "exit1", "panic"})]_vars
    /\ [](pc = "match" => chi <= Len(line))

(* ------------------------------------------------------------------ *)
(* C21: the accept index                                              *)
(* ------------------------------------------------------------------ *)
\* no Transition or EpsilonTransition edge of n points to state 0
NoEdgeToStart(n) ==
    \A i \in 0..(Len(n.states) - 1) :
        StateAt(n.states, i)[1] \in {"Transition", "EpsilonTransition"} =>
            StateAt(n.states, i)[Len(StateAt(n.states, i))] >= 1

\* C21: the NFA from_regex returns has accept = 0 and no edge to state 0, and
\* for every pattern that parses and every line matches returns true exactly
\* when the line is empty.
C21_AcceptIsStart ==
    /\ Built => (nfa.accept = 0 /\ NoEdgeToStart(nfa))
    /\ Matched => (matches <=> (line = <<>>))

\* matches consumed a whole non-empty line, ended in a Match-tagged state and
\* returned false
C21_Witness ==
    /\ Matched
    /\ line # <<>>
    /\ chi = Len(line)
    /\ Range(current_states) \cap MatchTagged(nfa) # {}
    /\ ~matches

(* ------------------------------------------------------------------ *)
(* C22: parse and the end of the pattern                              *)
(* ------------------------------------------------------------------ *)
\* parse returned Ok
ParseReturnedOk == Parsed /\ pc \notin {"exit1", "panic"}

\* C22: when parse returns Ok the current token is EOF, the whole pattern
\* consumed; the pattern "a)b", with its unmatched close parenthesis, is
\* rejected with a parse error.
C22_ParseConsumesWholePattern ==
    /\ ParseReturnedOk => parser.current_token = TokEOF
    /\ (Parsed /\ pattern = <<"a", ")", "b">>) => (pc = "exit1" /\ parse_err # <<>>)

====
